---- MODULE Spec2Model ----
(***************************************************************************)
(* Model of the indexing-and-retrieval pipeline of mag: the incremental    *)
(* indexer (mag/indexer/embedder.py) on top of the vector store            *)
(* (mag/retrieval/vector_store.py), the semantic chunker                   *)
(* (mag/indexer/chunker.py) and the search tool (mag/tools/search_code.py).*)
(*                                                                         *)
(* The specifications of the module share its variables:                   *)
(*   Spec         the indexer and the store (index, reindex_file, clear,   *)
(*                process restart, file modifications, worker tasks)       *)
(*   SpecRun      one process: index() with pools of several sizes and     *)
(*                KeyboardInterrupt                                        *)
(*   SpecChunk    SemanticChunker.chunk_nodes on one node                  *)
(*   SpecSearch   search_code on the hits of VectorStore.search            *)
(*   SpecStore    add_embeddings, delete_by_file and clear on point counts *)
(*   SpecPayload  add_embeddings and get_by_id on payloads                 *)
(*   SpecLock     _db_lock and the threads that take it                    *)
(*   SpecFile     get_file                                                 *)
(*   SpecServer   call_tool, read_resource, get_prompt                     *)
(*   SpecCli      main() of scripts/index_codebase.py                      *)
(*   SpecNeeds    CodebaseEmbedder._needs_reindexing                       *)
(*   SpecProgress the progress callback of index_codebase                  *)
(***************************************************************************)
EXTENDS Integers, Sequences, FiniteSets, TLC

(***************************************************************************)
(* Bounds of the indexer model.                                            *)
(***************************************************************************)
\* the environment rewrites files at most MaxMods times in a behaviour
MaxMods == 1
\* settings.max_workers of the modelled run
max_workers == 2

\* VectorStore.__init__: self._vector_size = 384
DefaultVectorSize == 384
\* the dimension of another embedding model (nomic-embed-text)
OtherVectorSize == 768

Files == {"A.cs", "B.cs"}
\* the chunk contents a file can hold; the number orders the points of a file
\* as the store's scroll does (by point id)
Texts == {1, 2}
Dims == {DefaultVectorSize, OtherVectorSize}

VARIABLES
    \* ---- file system
    content,        \* content[f]: the chunk contents parse+chunk yield for f
    mtime,          \* mtime[f]: stat(f).st_mtime
    \* ---- persistent store (survives restarts)
    collDim,        \* the vector size the collection is configured with
    points,         \* points[f][c]: file_mtime of the point of chunk c of f, 0: no point
    \* ---- process state
    vector_size,    \* VectorStore._vector_size of the open handle
    embDim,         \* dimension of the vectors OllamaClient.embed returns
    workers,        \* CodebaseEmbedder.max_workers: the size of the thread pool
    phase,          \* "idle" | "index" | "reindex": the call in progress
    task,           \* task[f]: the _index_file task of f in the call in progress
    incremental,    \* the incremental argument of the index() in progress
    toIndex,        \* files_to_index of the call in progress
    skipped,        \* files the filter of the index() in progress skipped
    result,         \* what the call that has just returned gave back;
                    \* NoResult as soon as anything else happens
    \* ---- history (not read by the program)
    fresh,          \* fresh[f]: latest _index_file of f succeeded, f not modified since
    settled,        \* "yes": the last index() returned errors = 0 and nothing
                    \* happened since; "running": index() in progress, tree
                    \* untouched so far; "no" otherwise
    hist,           \* of the call in progress or the call that has just returned:
                    \* the points the store held when it started, how often it
                    \* dropped and recreated the collection, and how many of its
                    \* add_embeddings calls stored chunks
    \* ---- chunker (SpecChunk)
    ck,
    \* ---- search_code (SpecSearch)
    sr,
    \* ---- VectorStore operations on their own (SpecStore)
    vs,
    \* ---- add_embeddings / get_by_id payloads (SpecPayload)
    pl,
    \* ---- _db_lock and the threads that take it (SpecLock)
    lk,
    \* ---- get_file (SpecFile)
    gf,
    \* ---- the handlers of the server (SpecServer)
    rpc,
    \* ---- main() of the indexing script (SpecCli)
    cli,
    \* ---- _needs_reindexing on one file (SpecNeeds)
    nr,
    \* ---- the progress callback of index_codebase (SpecProgress)
    pg

ivars == <<content, mtime, collDim, points, vector_size, embDim, workers, phase, task,
           incremental, toIndex, skipped, result, fresh, settled, hist>>
vars == <<ivars, ck, sr, vs, pl, lk, gf, rpc, cli, nr, pg>>

NoTask == [st |-> "none", chunks |-> {}, mt |-> 0, n |-> 0, dirty |-> FALSE]
NoResult == [files_processed |-> 0, chunks_created |-> 0, errors |-> 0,
             files_skipped |-> 0, call |-> "none"]

(***************************************************************************)
(* Vector store                                                            *)
(***************************************************************************)
\* the chunk contents of f that have a stored point
Stored(f) == {c \in Texts : points[f][c] # 0}

EmptyPoints == [f \in Files |-> [c \in Texts |-> 0]]
NoHist == [before |-> EmptyPoints, recreated |-> 0, upserted |-> 0]

\* VectorStore.get(where={"file": f}, limit=1): the first point of the scroll
\* (the engine scrolls in point id order), as a set of at most one chunk
GetFirst(f) ==
    IF Stored(f) = {} THEN {}
    ELSE {CHOOSE c \in Stored(f) : \A d \in Stored(f) : c <= d}

\* a variant that recreates the collection on every call
RecreatesAlways(dim) == TRUE

\* VectorStore.add_embeddings under _db_lock: whether the collection is
\* deleted and recreated before the upsert
Recreates(dim) == dim # vector_size

\* the client's upsert raises on vectors that are not of the collection's size
UpsertAccepts(dim, size) == dim = size

\* the client's upsert of the chunks cs of f with payload file_mtime = mt
Upsert(pts, f, cs, mt) ==
    [pts EXCEPT ![f] = [c \in Texts |-> IF c \in cs THEN mt ELSE pts[f][c]]]

\* VectorStore.delete_by_file
DeleteByFile(pts, f) == [pts EXCEPT ![f] = [c \in Texts |-> 0]]

(***************************************************************************)
(* Indexer                                                                 *)
(***************************************************************************)
\* CodebaseEmbedder._needs_reindexing
NeedsReindexing(f) ==
    LET first == GetFirst(f) IN
    IF first = {} THEN TRUE
    ELSE LET stored_mtime == points[f][CHOOSE c \in first : TRUE] IN
         mtime[f] > stored_mtime

\* a variant that counts the files instead of their chunks
FilesCounted(S) == Cardinality(S)

\* total_chunks: the sum of the counts the tasks of S returned
RECURSIVE TotalChunks(_)
TotalChunks(S) ==
    IF S = {} THEN 0
    ELSE LET f == CHOOSE g \in S : TRUE IN task[f].n + TotalChunks(S \ {f})

\* the number of rewrites so far: every rewrite advances one mtime by one
RECURSIVE Rewrites(_)
Rewrites(S) ==
    IF S = {} THEN 0
    ELSE LET f == CHOOSE g \in S : TRUE IN (mtime[f] - 1) + Rewrites(S \ {f})

Running == {f \in Files : task[f].st \in {"parsed", "embedded"}}
\* a variant in which the first failed task ends the wait for the others
FinishedOrAborted(f) ==
    task[f].st \in {"ok", "err"} \/ \E g \in Files : task[g].st = "err"
Finished(f) == task[f].st \in {"ok", "err"}

\* index_codebase up to the submission of the tasks; with nothing to index it
\* returns at once
IndexStart(incr) ==
    /\ phase = "idle"
    /\ LET files_to_index == IF incr
                             THEN {f \in Files : NeedsReindexing(f)}
                             ELSE Files
           files_skipped == IF incr THEN Files \ files_to_index ELSE {}
       IN IF files_to_index = {}
          THEN /\ result' = [files_processed |-> 0, chunks_created |-> 0,
                             errors |-> 0,
                             files_skipped |-> Cardinality(files_skipped),
                             call |-> "index"]
               /\ settled' = "yes"
               /\ UNCHANGED <<phase, task, incremental, toIndex, skipped>>
          ELSE /\ phase' = "index"
               /\ incremental' = incr
               /\ toIndex' = files_to_index
               /\ skipped' = files_skipped
               /\ task' = [f \in Files |->
                             IF f \in files_to_index
                             THEN [NoTask EXCEPT !.st = "queued"]
                             ELSE NoTask]
               /\ settled' = "running"
               /\ result' = NoResult
    /\ UNCHANGED <<content, mtime, collDim, points, vector_size, embDim, workers, fresh>>
    /\ hist' = [NoHist EXCEPT !.before = points]

\* a variant of the pool that starts every submitted task at once
PoolUnbounded == TRUE
\* ThreadPoolExecutor(max_workers=self.max_workers): a queued task starts when
\* fewer than max_workers tasks are running
PoolHasIdleWorker == Cardinality(Running) < workers

\* _index_file: parse_file and chunk_nodes; no nodes or no chunks: return 0
TaskParse(f) ==
    /\ task[f].st = "queued"
    /\ PoolHasIdleWorker
    /\ IF content[f] = {}
       THEN /\ task' = [task EXCEPT ![f] = [NoTask EXCEPT !.st = "ok"]]
            /\ fresh' = [fresh EXCEPT ![f] = TRUE]
       ELSE /\ task' = [task EXCEPT ![f] = [NoTask EXCEPT !.st = "parsed",
                                                          !.chunks = content[f]]]
            /\ UNCHANGED fresh
    /\ UNCHANGED <<hist, content, mtime, collDim, points, vector_size, embDim, workers, phase,
                   incremental, toIndex, skipped, result, settled>>

\* a variant that upserts every chunk as soon as it is embedded
UpsertEachEmbedded(f, cs, mt, embedded) == Upsert(points, f, embedded, mt)

\* the points the store holds after the embed loop; the loop only fills
\* local lists
AfterEmbedLoop(f, cs, mt, embedded) == points

\* _index_file: stat the file, then embed every chunk; an embed call may raise
TaskEmbed(f) ==
    /\ task[f].st = "parsed"
    /\ \E ok \in BOOLEAN :
       \E embedded \in SUBSET task[f].chunks :
          /\ ok => embedded = task[f].chunks
          /\ ~ok => embedded # task[f].chunks
          /\ points' = AfterEmbedLoop(f, task[f].chunks, mtime[f], embedded)
          /\ IF ok
             THEN /\ task' = [task EXCEPT ![f].st = "embedded", ![f].mt = mtime[f]]
                  /\ UNCHANGED fresh
             ELSE /\ task' = [task EXCEPT ![f] = [NoTask EXCEPT !.st = "err"]]
                  /\ fresh' = [fresh EXCEPT ![f] = FALSE]
    /\ UNCHANGED <<hist, content, mtime, collDim, vector_size, embDim, workers, phase,
                   incremental, toIndex, skipped, result, settled>>

\* _index_file: add_embeddings (one call, under _db_lock) and return len(chunks);
\* the client's upsert may raise
TaskUpsert(f) ==
    /\ task[f].st = "embedded"
    /\ LET recreate == Recreates(embDim)
           size == IF recreate THEN embDim ELSE collDim
           pts == IF recreate THEN EmptyPoints ELSE points
       IN /\ vector_size' = embDim
          /\ collDim' = size
          /\ \E storeOk \in BOOLEAN :
                /\ hist' = [hist EXCEPT
                              !.recreated = IF recreate THEN @ + 1 ELSE @,
                              !.upserted = IF storeOk /\ UpsertAccepts(embDim, size)
                                           THEN @ + 1 ELSE @]
                /\ IF storeOk /\ UpsertAccepts(embDim, size)
                   THEN /\ points' = Upsert(pts, f, task[f].chunks, task[f].mt)
                        /\ task' = [task EXCEPT ![f] =
                                      [NoTask EXCEPT !.st = "ok",
                                                     !.n = Cardinality(task[f].chunks)]]
                        /\ fresh' = [fresh EXCEPT ![f] = ~task[f].dirty]
                   ELSE /\ points' = pts
                        /\ task' = [task EXCEPT ![f] = [NoTask EXCEPT !.st = "err"]]
                        /\ fresh' = [fresh EXCEPT ![f] = FALSE]
    /\ UNCHANGED <<content, mtime, embDim, workers, phase, incremental, toIndex, skipped,
                   result, settled>>

\* index_codebase: every future has completed; the statistics are returned
IndexReturn ==
    /\ phase = "index"
    /\ \A f \in toIndex : Finished(f)
    /\ LET total_errors == Cardinality({f \in toIndex : task[f].st = "err"})
       IN /\ result' = [files_processed |-> Cardinality(toIndex),
                        chunks_created |-> TotalChunks(toIndex),
                        errors |-> total_errors,
                        files_skipped |-> Cardinality(skipped),
                        call |-> "index"]
          /\ settled' = IF settled = "running" /\ total_errors = 0 THEN "yes" ELSE "no"
    /\ phase' = "idle"
    /\ task' = [f \in Files |-> NoTask]
    /\ incremental' = FALSE
    /\ toIndex' = {}
    /\ skipped' = {}
    /\ UNCHANGED <<hist, content, mtime, collDim, points, vector_size, embDim, workers, fresh>>

\* a variant of the pool whose shutdown does not wait for the tasks
ShutdownNoWait == TRUE
\* the exit of "with ThreadPoolExecutor(...) as executor": shutdown(wait=True)
\* returns when every submitted task has finished
PoolShutDown == \A f \in toIndex : Finished(f)

\* KeyboardInterrupt is raised in the thread of index_codebase while it waits
\* in as_completed: the exception leaves the loop and enters the exit of the
\* with block; the tasks go on
Interrupt ==
    /\ phase = "index"
    /\ phase' = "unwind"
    /\ incremental' = FALSE
    /\ skipped' = {}
    /\ settled' = "no"
    /\ result' = NoResult
    /\ UNCHANGED <<hist, content, mtime, collDim, points, vector_size, embDim, workers,
                   task, toIndex, fresh>>

\* the pool has shut down: the KeyboardInterrupt leaves index_codebase and main
\* returns 130
UnwindReturn ==
    /\ phase = "unwind"
    /\ PoolShutDown
    /\ phase' = "idle"
    /\ task' = [f \in Files |-> NoTask]
    /\ toIndex' = {}
    /\ result' = [NoResult EXCEPT !.call = "interrupted"]
    /\ UNCHANGED <<hist, content, mtime, collDim, points, vector_size, embDim, workers,
                   incremental, skipped, fresh, settled>>

\* reindex_file: delete_by_file, then _index_file runs in the calling thread;
\* delete_by_file swallows what the client's scroll or delete raises and
\* returns 0, the points untouched
ReindexStart(f) ==
    /\ phase = "idle"
    /\ \E deleted \in BOOLEAN :
          points' = IF deleted THEN DeleteByFile(points, f) ELSE points
    /\ phase' = "reindex"
    /\ toIndex' = {f}
    /\ task' = [task EXCEPT ![f] = [NoTask EXCEPT !.st = "queued"]]
    /\ fresh' = [fresh EXCEPT ![f] = FALSE]
    /\ settled' = "no"
    /\ result' = NoResult
    /\ UNCHANGED <<content, mtime, collDim, vector_size, embDim, workers, incremental, skipped>>
    /\ hist' = [NoHist EXCEPT !.before = points]

\* reindex_file returns the chunk count of _index_file, or raises what it raised
ReindexReturn ==
    /\ phase = "reindex"
    /\ \A f \in toIndex : Finished(f)
    /\ result' = [files_processed |-> 1,
                  chunks_created |-> TotalChunks(toIndex),
                  errors |-> Cardinality({f \in toIndex : task[f].st = "err"}),
                  files_skipped |-> 0,
                  call |-> "reindex"]
    /\ phase' = "idle"
    /\ task' = [f \in Files |-> NoTask]
    /\ toIndex' = {}
    /\ UNCHANGED <<hist, content, mtime, collDim, points, vector_size, embDim, workers,
                   incremental, skipped, fresh, settled>>

\* clear_index -> VectorStore.clear: scroll and delete the points; when that
\* raises, delete_collection and _ensure_collection recreate the collection at
\* _vector_size, unless delete_collection raises too (swallowed), which leaves
\* the collection as it was
Clear ==
    /\ phase = "idle"
    /\ \E outcome \in {"deleted", "recreated", "kept"} :
          /\ points' = IF outcome = "kept" THEN points ELSE EmptyPoints
          /\ collDim' = IF outcome = "recreated" THEN vector_size ELSE collDim
    /\ fresh' = [f \in Files |-> FALSE]
    /\ settled' = "no"
    /\ result' = NoResult
    /\ UNCHANGED <<content, mtime, vector_size, embDim, workers, phase, task, incremental,
                   toIndex, skipped>>
    /\ hist' = NoHist

\* the process ends and a new one opens the same persist directory:
\* VectorStore.__init__ (the collection exists, _ensure_collection keeps it)
Restart ==
    /\ phase = "idle"
    /\ vector_size' = DefaultVectorSize
    /\ embDim' \in Dims
    /\ fresh' = [f \in Files |-> FALSE]
    /\ settled' = "no"
    /\ result' = NoResult
    /\ UNCHANGED <<content, mtime, collDim, points, workers, phase, task, incremental,
                   toIndex, skipped>>
    /\ hist' = NoHist

\* the environment rewrites a file: new content, later modification time
Modify(f) ==
    /\ Rewrites(Files) < MaxMods
    /\ mtime' = [mtime EXCEPT ![f] = mtime[f] + 1]
    /\ content' \in {[content EXCEPT ![f] = cs] : cs \in SUBSET Texts}
    /\ task' = [task EXCEPT ![f].dirty = task[f].st \in {"parsed", "embedded"}]
    /\ fresh' = [fresh EXCEPT ![f] = FALSE]
    /\ settled' = "no"
    /\ result' = NoResult
    /\ UNCHANGED <<collDim, points, vector_size, embDim, workers, phase, incremental,
                   toIndex, skipped>>
    /\ hist' = IF phase = "idle" THEN NoHist ELSE hist

(***************************************************************************)
(* Chunker (SpecChunk).  A text is modelled by its length in characters, a *)
(* code body by its lines; a line is [len, kind], the kind carrying what   *)
(* _extract_signature looks at.  Tokens are counted as _count_tokens does  *)
(* without an encoding: len(text) // 4.                                    *)
(***************************************************************************)
\* the longest code body, in lines
MaxLines == 7
\* the sliding-window loop is followed for at most MaxIter iterations
MaxIter == 9
\* class bodies hold at most MaxMembers members
MaxMembers == 3

\* chunk_size_tokens and chunk_overlap_tokens of the modelled settings, all
\* accepted by Settings (0 < chunk_size_tokens <= 2048, chunk_overlap_tokens >= 0)
ChunkSizes == {8, 36}
Overlaps == {0, 12, 30, 36}
\* lengths of the context header and of a source line, in characters
HeaderLens == {8, 48}
LineLens == {0, 5, 30}

Line(k, n) == [len |-> n, kind |-> k]

\* len("\n".join(lines))
RECURSIVE SumLen(_)
SumLen(ls) == IF ls = <<>> THEN 0 ELSE Head(ls).len + SumLen(Tail(ls))
JoinLen(ls) == IF ls = <<>> THEN 0 ELSE SumLen(ls) + Len(ls) - 1

\* str.splitlines() of "\n".join(ls): a final empty line is not a line
Splitlines(ls) ==
    IF ls # <<>> /\ ls[Len(ls)].len = 0 THEN SubSeq(ls, 1, Len(ls) - 1) ELSE ls

\* the bounds of the Python slice seq[i:j] of a sequence of n items, as the
\* 1-based positions lo..hi (empty when lo > hi)
PyIndex(x, n) == IF x < 0 THEN (IF x + n < 0 THEN 0 ELSE x + n)
                 ELSE IF x > n THEN n ELSE x
PySliceLo(i, n) == PyIndex(i, n) + 1
PySliceHi(j, n) == PyIndex(j, n)

Max(a, b) == IF a >= b THEN a ELSE b
Min(a, b) == IF a <= b THEN a ELSE b

\* SemanticChunker._count_tokens, no encoding: len(text) // 4
CountTokens(chars) == chars \div 4

\* len(f"{context_header}\n{code}")
ContentLen(header, ls) == header + 1 + JoinLen(ls)

\* "    // ... method body omitted ..."
OmittedLine == Line("stmt", 34)

\* what _extract_signature reads off a line
LooksLikeSignature(l) == l.kind \in {"msig", "msigbrace"}
HasOpenBrace(l) == l.kind \in {"brace", "msigbrace"}
HasCloseBrace(l) == l.kind = "close"
BraceDelta(l) == IF HasOpenBrace(l) THEN 1 ELSE IF HasCloseBrace(l) THEN 0 - 1 ELSE 0

\* SemanticChunker._extract_signature: the loop over the lines from position i,
\* with the signature lines collected so far in sig
RECURSIVE SignatureFrom(_, _, _, _, _, _)
SignatureFrom(ls, i, sig, brace_count, in_method, prev_sig) ==
    IF i > Len(ls) THEN sig
    ELSE LET l == ls[i]
             enter == prev_sig /\ l.kind = "brace"
             in1 == in_method \/ enter
             prev1 == prev_sig /\ ~enter
             sigline == LooksLikeSignature(l) /\ ~in1 /\ brace_count >= 1
         IN IF sigline /\ ~HasOpenBrace(l)
            THEN SignatureFrom(ls, i + 1, Append(sig, l), brace_count, in1, TRUE)
            ELSE LET in2 == in1 \/ sigline
                     bc == brace_count + BraceDelta(l)
                 IN IF ~in2
                    THEN SignatureFrom(ls, i + 1, Append(sig, l), bc, in2, prev1)
                    ELSE IF bc = 1 /\ HasCloseBrace(l)
                    THEN SignatureFrom(ls, i + 1, Append(Append(sig, OmittedLine), l),
                                       bc, FALSE, prev1)
                    ELSE SignatureFrom(ls, i + 1, sig, bc, in2, prev1)

ExtractSignature(ls) == SignatureFrom(Splitlines(ls), 1, <<>>, 0, FALSE, FALSE)

\* SemanticChunker._create_chunk: what part of the node the chunk renders, the
\* source lines lo..hi it holds, and its token count
Chunk(part, lo, hi, tokens) == [part |-> part, lo |-> lo, hi |-> hi, token_count |-> tokens]

\* the fallback of _split_large_node when nothing was produced
WholeChunk(node) ==
    Chunk("whole", 1, Len(node.lines),
          CountTokens(ContentLen(node.header, node.lines)))

\* _sliding_window_chunk: the inner loop drops last lines while the window is
\* over the budget and holds more than one line; the number of lines kept
RECURSIVE ShrinkWindow(_, _, _, _)
ShrinkWindow(header, ls, k, chunk_size) ==
    IF CountTokens(ContentLen(header, SubSeq(ls, 1, k))) > chunk_size /\ k > 1
    THEN ShrinkWindow(header, ls, k - 1, chunk_size)
    ELSE k

\* _sliding_window_chunk: start_idx = end_idx - overlap_lines
NextStart(end_idx, overlap_lines) == end_idx - overlap_lines

EstLinesPerChunk(chunk_size) == Max(5, chunk_size \div 6)
OverlapLines(overlap) == Max(1, overlap \div 6)

\* _chunk_node and _split_large_node up to the sliding window loop
ChunkNode ==
    /\ ck.pc = "start"
    /\ LET node == ck.node
           token_count == CountTokens(ContentLen(node.header, node.lines))
       IN IF token_count <= ck.chunk_size
          THEN ck' = [ck EXCEPT !.pc = "done",
                                !.chunks = <<Chunk("whole", 1, Len(node.lines), token_count)>>]
          ELSE IF node.type \in {"class", "interface", "struct"}
          THEN LET signature == ExtractSignature(node.lines)
                   sig_tokens == CountTokens(ContentLen(node.header, signature))
               IN ck' = [ck EXCEPT !.pc = "done",
                                   !.chunks =
                                      IF sig_tokens <= ck.chunk_size
                                      THEN <<Chunk("signature", 1, Len(node.lines), sig_tokens)>>
                                      ELSE <<WholeChunk(node)>>]
          ELSE IF Splitlines(node.lines) = <<>>
          THEN ck' = [ck EXCEPT !.pc = "done", !.chunks = <<WholeChunk(node)>>]
          ELSE ck' = [ck EXCEPT !.pc = "window", !.start_idx = 0]
    /\ UNCHANGED <<ivars, cli, nr, pg, sr, vs, pl, lk, gf, rpc>>

\* one iteration of the while loop of _sliding_window_chunk
SlidingStep ==
    /\ ck.pc = "window"
    /\ ck.iter < MaxIter
    /\ LET lines == Splitlines(ck.node.lines)
           n == Len(lines)
           est_lines_per_chunk == EstLinesPerChunk(ck.chunk_size)
           overlap_lines == OverlapLines(ck.overlap)
           end_idx == Min(ck.start_idx + est_lines_per_chunk, n)
           lo == PySliceLo(ck.start_idx, n)
           hi == PySliceHi(end_idx, n)
           chunk_lines == SubSeq(lines, lo, hi)
           kept == IF chunk_lines = <<>> THEN 0
                   ELSE ShrinkWindow(ck.node.header, chunk_lines, Len(chunk_lines),
                                     ck.chunk_size)
           token_count == CountTokens(ContentLen(ck.node.header,
                                                 SubSeq(chunk_lines, 1, kept)))
           chunks == IF kept > 0
                     THEN Append(ck.chunks, Chunk("window", lo, lo + kept - 1, token_count))
                     ELSE ck.chunks
           start_idx == NextStart(end_idx, overlap_lines)
           \* break, or the while condition fails
           ends == start_idx >= n - overlap_lines \/ ~(start_idx < n)
       IN ck' = [ck EXCEPT !.chunks = chunks,
                           !.start_idx = start_idx,
                           !.iter = ck.iter + 1,
                           !.pc = IF ends THEN "done" ELSE "window"]
    /\ UNCHANGED <<ivars, cli, nr, pg, sr, vs, pl, lk, gf, rpc>>

\* code bodies of methods and properties: any lines
MethodBodies ==
    UNION {[1..n -> {Line("stmt", k) : k \in LineLens}] : n \in 0..MaxLines}

\* the lines of a class member
MemberLines(m) ==
    CASE m = "field" -> <<Line("field", 18)>>
      [] m = "method" -> <<Line("msig", 24), Line("brace", 5), Line("stmt", 30),
                           Line("stmt", 30), Line("close", 5)>>
      [] m = "inline" -> <<Line("msigbrace", 26), Line("stmt", 30), Line("close", 5)>>

RECURSIVE MembersLines(_)
MembersLines(ms) ==
    IF ms = <<>> THEN <<>> ELSE MemberLines(Head(ms)) \o MembersLines(Tail(ms))

\* code bodies of classes: the declaration, a brace, the members, a brace
ClassBodies ==
    {<<Line("decl", 16), Line("brace", 1)>> \o MembersLines(ms) \o <<Line("close", 1)>> :
        ms \in UNION {[1..n -> {"field", "method", "inline"}] : n \in 0..MaxMembers}}

Nodes ==
    {[type |-> "method", header |-> h, lines |-> b] : h \in HeaderLens, b \in MethodBodies}
    \cup {[type |-> "class", header |-> h, lines |-> b] : h \in HeaderLens, b \in ClassBodies}

NoCk == [pc |-> "off", chunk_size |-> 0, overlap |-> 0,
         node |-> [type |-> "method", header |-> 0, lines |-> <<>>],
         start_idx |-> 0, iter |-> 0, chunks |-> <<>>]

(***************************************************************************)
(* search_code (SpecSearch).  Scores are in thousandths: a cosine          *)
(* similarity of 0.304 is 304.                                             *)
(***************************************************************************)
\* the engine returns at most MaxHits points
MaxHits == 3
\* cosine similarities of stored points to the query
Sims == {0 - 200, 0, 304, 500, 696, 700, 1000}
\* settings.similarity_threshold (0.0 <= threshold <= 1.0)
Thresholds == {0, 300, 700, 1000}

\* round(x, 2) for x >= 0 in thousandths: to the nearest hundredth, a tie to even
Round2(x) ==
    LET r == x % 10
        down == x - r
    IN IF r < 5 THEN down
       ELSE IF r > 5 THEN down + 10
       ELSE IF (down \div 10) % 2 = 0 THEN down ELSE down + 10

\* search_code: relevance_score = 1.0 - distance
Relevance(distance) == 1000 - distance

\* VectorStore.search: the first n_results points of the engine's ranking;
\* "distances" holds result.score of each
SearchDistances(ranked, n_results) == SubSeq(ranked, 1, Min(n_results, Len(ranked)))

\* search_code: the loop over the hits from position i, formatted results in out
RECURSIVE FormatFrom(_, _, _, _)
FormatFrom(distances, i, threshold, out) ==
    IF i > Len(distances) THEN out
    ELSE LET relevance_score == Relevance(distances[i])
         IN IF relevance_score < threshold
            THEN FormatFrom(distances, i + 1, threshold, out)
            ELSE FormatFrom(distances, i + 1, threshold,
                            Append(out, [hit |-> i,
                                         relevance_score |-> Round2(relevance_score)]))

\* search_code(query, max_results)
SearchCode ==
    /\ sr.pc = "start"
    /\ LET distances == SearchDistances(sr.ranked, sr.max_results)
       IN sr' = [sr EXCEPT !.pc = "done",
                           !.distances = distances,
                           !.out = FormatFrom(distances, 1, sr.threshold, <<>>)]
    /\ UNCHANGED <<ivars, cli, nr, pg, ck, vs, pl, lk, gf, rpc>>

\* rankings of the engine: similarities to the query, best first
Rankings ==
    {r \in UNION {[1..n -> Sims] : n \in 0..MaxHits} :
        \A i \in 1..Len(r) - 1 : r[i] >= r[i + 1]}

NoSr == [pc |-> "off", ranked |-> <<>>, max_results |-> 0, threshold |-> 0,
         distances |-> <<>>, out |-> <<>>]

(***************************************************************************)
(* VectorStore operations on a large collection (SpecStore).  The          *)
(* collection is modelled by the number of points it holds for each file.  *)
(***************************************************************************)
\* delete_by_file: client.scroll(..., limit=10000)
DeleteScrollLimit == 10000
\* clear: client.scroll(..., limit=100000)
ClearScrollLimit == 100000
\* add_embeddings is called at most MaxAdds times in a behaviour
MaxAdds == 3
\* the sizes of the batches add_embeddings is called with
BatchSizes == {1, 10000, 100000}

RECURSIVE SumOver(_, _)
SumOver(n, S) ==
    IF S = {} THEN 0
    ELSE LET f == CHOOSE g \in S : TRUE IN n[f] + SumOver(n, S \ {f})

\* VectorStore.count: collection_info.points_count
Count(n) == SumOver(n, Files)

\* VectorStore.search(where={"file": f}, n_results): the number of hits
HitsByFile(n, f, n_results) == Min(n_results, n[f])

\* add_embeddings of a batch of k new points of f
VsAddEmbeddings(f, k) ==
    /\ vs.pc = "run"
    /\ vs.adds < MaxAdds
    /\ vs' = [vs EXCEPT !.n[f] = vs.n[f] + k, !.adds = vs.adds + 1,
                        !.op = "add_embeddings", !.arg = f, !.ret = 0]
    /\ UNCHANGED <<ivars, cli, nr, pg, ck, sr, pl, lk, gf, rpc>>

\* delete_by_file(f): scroll at most DeleteScrollLimit points of f and delete
\* them; whatever the client raises is swallowed and 0 returned
VsDeleteByFile(f) ==
    /\ vs.pc = "run"
    /\ \E raises \in BOOLEAN :
          LET scrolled == Min(vs.n[f], DeleteScrollLimit)
          IN vs' = IF raises
                   THEN [vs EXCEPT !.op = "delete_by_file", !.arg = f, !.ret = 0]
                   ELSE [vs EXCEPT !.n[f] = vs.n[f] - scrolled,
                                   !.op = "delete_by_file", !.arg = f,
                                   !.ret = scrolled]
    /\ UNCHANGED <<ivars, cli, nr, pg, ck, sr, pl, lk, gf, rpc>>

\* the points of each file among the first `limit` points of a scroll over the
\* whole collection: the scroll goes in point id order, so that the points of
\* either file may come first
ScrolledSplits(n, limit) ==
    LET k == Min(Count(n), limit)
    IN {[f \in Files |-> IF f = p THEN Min(n[p], k)
                         ELSE Min(n[f], k - Min(n[p], k))] : p \in Files}

\* clear(): scroll at most ClearScrollLimit points and delete them; when that
\* raises, delete_collection (what it raises is swallowed) and
\* _ensure_collection, which creates the collection only if it is missing
VsClear ==
    /\ vs.pc = "run"
    /\ \/ \E gone \in ScrolledSplits(vs.n, ClearScrollLimit) :
             vs' = [vs EXCEPT !.n = [f \in Files |-> vs.n[f] - gone[f]],
                              !.op = "clear", !.arg = "", !.ret = 0]
       \/ \E dropped \in BOOLEAN :
             vs' = [vs EXCEPT !.n = IF dropped THEN [f \in Files |-> 0] ELSE vs.n,
                              !.op = "clear", !.arg = "", !.ret = 0]
    /\ UNCHANGED <<ivars, cli, nr, pg, ck, sr, pl, lk, gf, rpc>>

NoVs == [pc |-> "off", n |-> [f \in Files |-> 0], adds |-> 0,
         op |-> "none", arg |-> "", ret |-> 0]
(***************************************************************************)
(* add_embeddings and get_by_id on payloads (SpecPayload).  A metadata map *)
(* and a payload are functions from keys to values.                        *)
(***************************************************************************)
\* add_embeddings is called with at most MaxBatch points
MaxBatch == 2
Ids == {"chunk_1", "chunk_2"}
Documents == {"d1", "d2"}
MetaKeys == {"file", "document", "_original_id"}
MetaValues == {"x"}
Metadatas == UNION {[S -> MetaValues] : S \in SUBSET MetaKeys}
Batches ==
    UNION {[1..k -> [id : Ids, document : Documents, metadata : Metadatas]] :
             k \in 1..MaxBatch}

\* VectorStore._to_uuid: uuid5(NAMESPACE, id), one UUID per string
ToUuid(id) == <<"uuid5", id>>
Uuids == {ToUuid(id) : id \in Ids}

\* add_embeddings: payload = {**metadata, "document": document, "_original_id": point_id}
Payload(metadata, document, point_id) ==
    ("document" :> document @@ "_original_id" :> point_id) @@ metadata

\* dict.pop(key, default): the map without the key
Pop(payload, key) == [k \in DOMAIN payload \ {key} |-> payload[k]]

NoEntry == [present |-> FALSE, payload |-> <<>>]
NoneResult == [found |-> FALSE, id |-> "", document |-> "", metadata |-> <<>>]

\* client.upsert of the points of the batch from position i, in list order
RECURSIVE UpsertFrom(_, _, _)
UpsertFrom(store, batch, i) ==
    IF i > Len(batch) THEN store
    ELSE LET pt == batch[i]
         IN UpsertFrom([store EXCEPT ![ToUuid(pt.id)] =
                           [present |-> TRUE,
                            payload |-> Payload(pt.metadata, pt.document, pt.id)]],
                       batch, i + 1)

\* VectorStore.get_by_id
GetById(store, chunk_id) ==
    LET entry == store[ToUuid(chunk_id)]
    IN IF ~entry.present THEN NoneResult
       ELSE [found |-> TRUE,
             id |-> IF "_original_id" \in DOMAIN entry.payload
                    THEN entry.payload["_original_id"] ELSE chunk_id,
             document |-> IF "document" \in DOMAIN entry.payload
                          THEN entry.payload["document"] ELSE "",
             metadata |-> Pop(Pop(entry.payload, "_original_id"), "document")]

\* add_embeddings(batch) on the empty collection
PlAddEmbeddings ==
    /\ pl.pc = "start"
    /\ pl' = [pl EXCEPT !.pc = "added", !.store = UpsertFrom(pl.store, pl.batch, 1)]
    /\ UNCHANGED <<ivars, cli, nr, pg, ck, sr, vs, lk, gf, rpc>>

\* get_by_id(ids[i])
PlGetById(i) ==
    /\ pl.pc = "added"
    /\ i \in 1..Len(pl.batch)
    /\ pl' = [pl EXCEPT !.pc = "got", !.idx = i,
                        !.got = GetById(pl.store, pl.batch[i].id)]
    /\ UNCHANGED <<ivars, cli, nr, pg, ck, sr, vs, lk, gf, rpc>>

NoPl == [pc |-> "off", batch |-> <<>>, store |-> [u \in Uuids |-> NoEntry],
         idx |-> 0, got |-> NoneResult]
(***************************************************************************)
(* _db_lock and the threads that call the mutating operations (SpecLock).  *)
(* A thread is the stack of the mutating calls it is in: a call made while *)
(* the thread is inside another mutating section (it already holds the     *)
(* lock) is stacked on top of it.                                          *)
(***************************************************************************)
\* a thread nests at most MaxDepth mutating calls
MaxDepth == 2
Threads == {"t1", "t2"}
Instances == {"s1", "s2"}
MutatingOps == {"add_embeddings", "delete_by_file", "clear", "update_metadata"}

\* a variant with one lock for each VectorStore instance
LockPerInstance(store) == store
\* the lock a mutating operation of the instance takes: the module-level
\* _db_lock = threading.RLock(), whatever the instance
LockOf(store) == "_db_lock"
LockNames == {"_db_lock"} \cup Instances

\* whether the body of the operation runs inside "with _db_lock"
TakesLock(op) ==
    CASE op = "add_embeddings" -> TRUE
      [] op = "delete_by_file" -> TRUE
      [] op = "clear" -> TRUE
      [] op = "update_metadata" -> TRUE

\* threading.RLock.acquire does not block when the lock is free or owned by
\* the calling thread
CanAcquire(l, t) == lk.owner[l] \in {"none", t}

Top(t) == lk.stack[t][Len(lk.stack[t])]
\* the thread is inside the mutating section of some call
InSection(t) == \E i \in 1..Len(lk.stack[t]) : lk.stack[t][i].pc = "in"

\* the thread calls a mutating operation of an instance
LkCall(t, op, store) ==
    /\ lk.pc = "run"
    /\ Len(lk.stack[t]) < MaxDepth
    /\ lk.stack[t] # <<>> => Top(t).pc = "in"
    /\ lk' = [lk EXCEPT !.stack[t] =
                 Append(lk.stack[t], [op |-> op, store |-> store, pc |-> "called"])]
    /\ UNCHANGED <<ivars, cli, nr, pg, ck, sr, vs, pl, gf, rpc>>

\* the call enters its mutating section: "with _db_lock:" acquires the lock
LkEnter(t) ==
    /\ lk.pc = "run"
    /\ lk.stack[t] # <<>>
    /\ Top(t).pc = "called"
    /\ LET l == LockOf(Top(t).store)
           d == Len(lk.stack[t])
       IN IF TakesLock(Top(t).op)
          THEN /\ CanAcquire(l, t)
               /\ lk' = [lk EXCEPT !.owner[l] = t,
                                   !.count[l] = lk.count[l] + 1,
                                   !.stack[t][d].pc = "in"]
          ELSE lk' = [lk EXCEPT !.stack[t][d].pc = "in"]
    /\ UNCHANGED <<ivars, cli, nr, pg, ck, sr, vs, pl, gf, rpc>>

\* the call leaves its mutating section and returns: the with block releases
LkLeave(t) ==
    /\ lk.pc = "run"
    /\ lk.stack[t] # <<>>
    /\ Top(t).pc = "in"
    /\ LET l == LockOf(Top(t).store)
           d == Len(lk.stack[t])
           rest == SubSeq(lk.stack[t], 1, d - 1)
       IN IF TakesLock(Top(t).op)
          THEN lk' = [lk EXCEPT !.count[l] = lk.count[l] - 1,
                                !.owner[l] = IF lk.count[l] = 1 THEN "none" ELSE t,
                                !.stack[t] = rest]
          ELSE lk' = [lk EXCEPT !.stack[t] = rest]
    /\ UNCHANGED <<ivars, cli, nr, pg, ck, sr, vs, pl, gf, rpc>>

NoLk == [pc |-> "off", owner |-> [l \in LockNames |-> "none"],
         count |-> [l \in LockNames |-> 0], stack |-> [t \in Threads |-> <<>>]]
(***************************************************************************)
(* get_file (SpecFile).  A path is a sequence of components below "/"; the *)
(* file system is a small tree with the codebase under /r, a directory /o  *)
(* outside of it and symbolic links between them.                          *)
(***************************************************************************)
\* the path argument has at most MaxPathLen components
MaxPathLen == 3

Dirs == {<<>>, <<"r">>, <<"o">>, <<"r", "d">>}
RegularFiles == {<<"r", "a">>, <<"r", "d", "b">>, <<"o", "s">>}
\* symbolic links and their targets
LinkTargets ==
    (<<"r", "l">> :> <<"o">>) @@ (<<"r", "k">> :> <<"o", "s">>)
        @@ (<<"r", "m">> :> <<"r", "d">>) @@ (<<"q">> :> <<"r">>)

\* settings.codebase_root as configured: the real directory, a symbolic link
\* to it, or a path relative to the working directory "/"
Roots == {[abs |-> TRUE, parts |-> <<"r">>], [abs |-> TRUE, parts |-> <<"q">>],
          [abs |-> FALSE, parts |-> <<"r">>]}
PathComponents == {"a", "b", "d", "k", "l", "m", "s", "x", ".."}
PathArguments ==
    {[abs |-> FALSE, parts |-> q] :
        q \in UNION {[1..n -> PathComponents] : n \in 0..MaxPathLen}}
    \cup {[abs |-> TRUE, parts |-> q] :
        q \in {<<"o", "s">>, <<"r", "a">>, <<"q", "a">>, <<"r", "l", "s">>}}

IsPrefix(q, r) == Len(q) <= Len(r) /\ SubSeq(r, 1, Len(q)) = q

\* the location the file system reaches following the components of `rest`
\* from the directory `cur`: ".." goes to the parent, a symbolic link is
\* replaced by its target, a missing name is kept
RECURSIVE RealPath(_, _)
RealPath(cur, rest) ==
    IF rest = <<>> THEN cur
    ELSE LET c == Head(rest)
             nxt == Append(cur, c)
         IN IF c = ".."
            THEN RealPath(IF cur = <<>> THEN cur ELSE SubSeq(cur, 1, Len(cur) - 1),
                          Tail(rest))
            ELSE IF nxt \in DOMAIN LinkTargets
            THEN RealPath(LinkTargets[nxt], Tail(rest))
            ELSE RealPath(nxt, Tail(rest))

\* codebase_root / path: an absolute path replaces the root
Joined(root, path) ==
    IF path.abs THEN path
    ELSE [abs |-> root.abs, parts |-> root.parts \o path.parts]

\* a variant that only normalises ".." and follows no link
RECURSIVE Normalized(_, _)
Normalized(cur, rest) ==
    IF rest = <<>> THEN cur
    ELSE IF Head(rest) = ".."
    THEN Normalized(IF cur = <<>> THEN cur ELSE SubSeq(cur, 1, Len(cur) - 1),
                    Tail(rest))
    ELSE Normalized(Append(cur, Head(rest)), Tail(rest))
ResolveLexically(root, path) ==
    [abs |-> TRUE, parts |-> Normalized(<<>>, Joined(root, path).parts)]

\* (codebase_root / path).resolve(): absolute, links followed; a relative path
\* starts at the working directory "/"
Resolve(root, path) ==
    [abs |-> TRUE, parts |-> RealPath(<<>>, Joined(root, path).parts)]

\* file_path.relative_to(codebase_root) does not raise: same anchor and the
\* components of the root are a prefix
RelativeTo(file_path, root) ==
    file_path.abs = root.abs /\ IsPrefix(root.parts, file_path.parts)

\* file_path.exists() and file_path.read_text() follow links
Exists(file_path) == RealPath(<<>>, file_path.parts) \in Dirs \cup RegularFiles
Readable(file_path) == RealPath(<<>>, file_path.parts) \in RegularFiles

\* get_file(path)
GetFile ==
    /\ gf.pc = "start"
    /\ LET file_path == Resolve(gf.root, gf.path)
       IN gf' = IF ~RelativeTo(file_path, gf.root)
                THEN [gf EXCEPT !.pc = "done", !.file_path = file_path,
                                !.raised = "outside codebase root",
                                !.ops = <<"resolve", "relative_to">>]
                ELSE IF ~Exists(file_path)
                THEN [gf EXCEPT !.pc = "done", !.file_path = file_path,
                                !.raised = "File not found",
                                !.ops = <<"resolve", "relative_to", "exists">>]
                ELSE IF ~Readable(file_path)
                THEN [gf EXCEPT !.pc = "done", !.file_path = file_path,
                                !.raised = "Failed to read file",
                                !.ops = <<"resolve", "relative_to", "exists", "read_text">>]
                ELSE [gf EXCEPT !.pc = "done", !.file_path = file_path,
                                !.raised = "",
                                !.read = RealPath(<<>>, file_path.parts),
                                !.ops = <<"resolve", "relative_to", "exists", "read_text">>]
    /\ UNCHANGED <<ivars, cli, nr, pg, ck, sr, vs, pl, lk, rpc>>

NoGf == [pc |-> "off", root |-> [abs |-> TRUE, parts |-> <<>>],
         path |-> [abs |-> FALSE, parts |-> <<>>],
         file_path |-> [abs |-> TRUE, parts |-> <<>>],
         raised |-> "", read |-> <<>>, ops |-> <<>>]
(***************************************************************************)
(* The RPC handlers of the server (SpecServer).  A text is a sequence of   *)
(* pieces: single characters, and the literal parts of the f-strings and   *)
(* the known names as one piece each.                                      *)
(***************************************************************************)
\* an exception message or an unknown name has at most MaxMsgLen characters
MaxMsgLen == 2

\* a letter, a double quote and a backslash
Chars == {"a", "\"", "\\"}
Messages == UNION {[1..n -> Chars] : n \in 0..MaxMsgLen}
ToolNames == {<<"search_code">>, <<"get_file">>, <<"list_files">>, <<"explain_symbol">>}
ResourceUris == {<<"codebase://indexed">>, <<"codebase://stats">>}
PromptNames == {<<"code_review">>, <<"architecture_analysis">>}
RpcNames == ToolNames \cup ResourceUris \cup PromptNames \cup Messages

\* what the called function does: it returns, or raises an Exception whose
\* str() is msg
HandlerOutcomes ==
    {[raises |-> FALSE, msg |-> <<>>]} \cup {[raises |-> TRUE, msg |-> t] : t \in Messages}

\* the body of the try block: the outcome of the handler of a known name, a
\* ValueError for any other name
TryBody(known, unknown_prefix, name, outcome) ==
    IF name \in known THEN outcome
    ELSE [raises |-> TRUE, msg |-> <<unknown_prefix>> \o name]

\* f"Error: {str(e)}"
ErrorText(msg) == <<"Error: ">> \o msg

\* f'{{"error": "{str(e)}"}}'
ErrorJson(msg) == <<"{\"error\": \"">> \o msg \o <<"\"}">>

\* call_tool(name, arguments)
CallTool ==
    /\ rpc.pc = "call_tool"
    /\ \E outcome \in HandlerOutcomes :
         LET r == TryBody(ToolNames, "Unknown tool: ", rpc.name, outcome)
         IN rpc' = [rpc EXCEPT !.pc = "returned", !.cause = r,
                               !.result = IF r.raises THEN ErrorText(r.msg)
                                          ELSE <<"json.dumps(result)">>]
    /\ UNCHANGED <<ivars, cli, nr, pg, ck, sr, vs, pl, lk, gf>>

\* read_resource(uri)
ReadResource ==
    /\ rpc.pc = "read_resource"
    /\ \E outcome \in HandlerOutcomes :
         LET r == TryBody(ResourceUris, "Unknown resource: ", rpc.name, outcome)
         IN rpc' = [rpc EXCEPT !.pc = "returned", !.cause = r,
                               !.result = IF r.raises THEN ErrorJson(r.msg)
                                          ELSE <<"json.dumps(summary)">>]
    /\ UNCHANGED <<ivars, cli, nr, pg, ck, sr, vs, pl, lk, gf>>

\* get_prompt(name, arguments)
GetPrompt ==
    /\ rpc.pc = "get_prompt"
    /\ \E outcome \in HandlerOutcomes :
         LET r == TryBody(PromptNames, "Unknown prompt: ", rpc.name, outcome)
         IN rpc' = [rpc EXCEPT !.pc = "returned", !.cause = r,
                               !.result = IF r.raises THEN ErrorText(r.msg)
                                          ELSE <<"prompt">>]
    /\ UNCHANGED <<ivars, cli, nr, pg, ck, sr, vs, pl, lk, gf>>

NoRpc == [pc |-> "off", handler |-> "", name |-> <<>>,
          cause |-> [raises |-> FALSE, msg |-> <<>>], result |-> <<>>]

(***************************************************************************)
(* main() of scripts/index_codebase.py (SpecCli).  cli.calls is the trace  *)
(* of the calls main has made on the embedder, a long call as its start    *)
(* and its end.                                                            *)
(***************************************************************************)
\* index_codebase reports at most MaxErrors errors
MaxErrors == 2

\* what embedder.index_codebase does to its caller
IndexOutcomes ==
    {[kind |-> "returns", errors |-> e] : e \in 0..MaxErrors}
    \cup {[kind |-> "raises", errors |-> 0], [kind |-> "KeyboardInterrupt", errors |-> 0]}

\* a variant of the statement order that clears before the availability check
ClearThenCheck(step) ==
    CASE step = "modes" -> "clear"
      [] step = "clear" -> "check"
      [] step = "check" -> "index"

\* the order of the statements of main after the --check-ollama and --stats
\* branches: the availability check, the --clear branch, the indexing
Then(step) ==
    CASE step = "modes" -> "check"
      [] step = "check" -> "clear"
      [] step = "clear" -> "index"

\* a variant that returns 0 whenever index_codebase returns
ExitZeroOnReturn(outcome) ==
    CASE outcome.kind = "returns" -> 0
      [] outcome.kind = "KeyboardInterrupt" -> 130
      [] outcome.kind = "raises" -> 1

\* the try block around index_codebase: the value main returns
ExitCode(outcome) ==
    CASE outcome.kind = "returns" -> IF outcome.errors > 0 THEN 1 ELSE 0
      [] outcome.kind = "KeyboardInterrupt" -> 130
      [] outcome.kind = "raises" -> 1

CliReturn(c, code) == [c EXCEPT !.pc = "returned", !.exit = code]

\* main: --codebase resets the settings; then the --check-ollama and --stats
\* branches
CliModes ==
    /\ cli.pc = "modes"
    /\ LET c == IF cli.codebase
                THEN [cli EXCEPT !.calls = Append(@, "reset_settings")]
                ELSE cli
       IN cli' = IF c.check_ollama
                 THEN CliReturn([c EXCEPT !.calls = Append(@, "is_available")],
                                IF c.available THEN 0 ELSE 1)
                 ELSE IF c.stats
                 THEN CliReturn([c EXCEPT !.calls = Append(@, "get_index_stats")], 0)
                 ELSE [c EXCEPT !.pc = Then("modes")]
    /\ UNCHANGED <<ivars, nr, pg, ck, sr, vs, pl, lk, gf, rpc>>

\* main: embedder.ollama_client.is_available(); return 1 when it is false
CliCheckOllama ==
    /\ cli.pc = "check"
    /\ cli' = IF ~cli.available
              THEN CliReturn([cli EXCEPT !.calls = Append(@, "is_available")], 1)
              ELSE [cli EXCEPT !.calls = Append(@, "is_available"),
                               !.pc = Then("check")]
    /\ UNCHANGED <<ivars, nr, pg, ck, sr, vs, pl, lk, gf, rpc>>

\* main: with --clear, embedder.clear_index() is called
CliClear ==
    /\ cli.pc = "clear"
    /\ cli' = IF cli.clear
              THEN [cli EXCEPT !.calls = Append(@, "clear_index"), !.pc = "clearing"]
              ELSE [cli EXCEPT !.pc = Then("clear")]
    /\ UNCHANGED <<ivars, nr, pg, ck, sr, vs, pl, lk, gf, rpc>>

\* clear_index returns, or raises out of main (the call is outside the try)
CliCleared ==
    /\ cli.pc = "clearing"
    /\ \E raises \in BOOLEAN :
         cli' = IF raises
                THEN [cli EXCEPT !.pc = "raised"]
                ELSE [cli EXCEPT !.calls = Append(@, "clear_index returned"),
                                 !.pc = Then("clear")]
    /\ UNCHANGED <<ivars, nr, pg, ck, sr, vs, pl, lk, gf, rpc>>

\* main: embedder.index_codebase(...) starts
CliIndex ==
    /\ cli.pc = "index"
    /\ cli' = [cli EXCEPT !.calls = Append(@, "index_codebase"), !.pc = "indexing"]
    /\ UNCHANGED <<ivars, nr, pg, ck, sr, vs, pl, lk, gf, rpc>>

\* index_codebase returns its statistics or raises; main returns the exit code
CliIndexed ==
    /\ cli.pc = "indexing"
    /\ \E outcome \in IndexOutcomes :
         cli' = CliReturn([cli EXCEPT !.outcome = outcome], ExitCode(outcome))
    /\ UNCHANGED <<ivars, nr, pg, ck, sr, vs, pl, lk, gf, rpc>>

NoCli == [pc |-> "off", codebase |-> FALSE, clear |-> FALSE, check_ollama |-> FALSE,
          stats |-> FALSE, available |-> FALSE, calls |-> <<>>,
          outcome |-> [kind |-> "none", errors |-> 0], exit |-> 0]
(***************************************************************************)
(* _needs_reindexing on one file (SpecNeeds).  A modification time is a    *)
(* number from 1; a stored payload is its file_mtime, 0 when the payload   *)
(* has no file_mtime.                                                      *)
(***************************************************************************)
\* the store holds at most MaxStored points of the file
MaxStored == 2

\* what file_path.stat() gives: the modification time, or 0 when it raises
StatResults == 0..3
\* what the scroll of the client gives: the payloads of the points whose
\* payload.file is the file, in scroll order, or "raises"
ScrollResults ==
    {[raises |-> TRUE, payloads |-> <<>>]}
    \cup {[raises |-> FALSE, payloads |-> ps] :
            ps \in UNION {[1..n -> 0..3] : n \in 0..MaxStored}}

\* VectorStore.get(where=..., limit=...): the first `limit` payloads, and
\* nothing when the scroll raises
CollectionGet(scroll, limit) ==
    IF scroll.raises THEN <<>>
    ELSE SubSeq(scroll.payloads, 1, Min(limit, Len(scroll.payloads)))

\* a variant that asks whether the stored time differs from the current one
MtimeDiffers(current_mtime, stored_mtime) == current_mtime # stored_mtime

\* current_mtime > stored_mtime
MtimeNewer(current_mtime, stored_mtime) == current_mtime > stored_mtime

\* _needs_reindexing(file_path)
CheckNeedsReindexing ==
    /\ nr.pc = "start"
    /\ LET metadatas == CollectionGet(nr.scroll, 1)
       IN nr' = [nr EXCEPT
                   !.pc = "returned",
                   !.result =
                      IF nr.stat = 0 THEN TRUE
                      ELSE IF metadatas = <<>> THEN TRUE
                      ELSE IF metadatas[1] = 0 THEN TRUE
                      ELSE MtimeNewer(nr.stat, metadatas[1])]
    /\ UNCHANGED <<ivars, cli, pg, ck, sr, vs, pl, lk, gf, rpc>>

NoNr == [pc |-> "off", stat |-> 0, scroll |-> [raises |-> FALSE, payloads |-> <<>>],
         result |-> FALSE]

(***************************************************************************)
(* The progress callback of index_codebase (SpecProgress): the futures of  *)
(* the files to index, the as_completed iterator of the main thread and    *)
(* the calls of progress_callback.                                         *)
(***************************************************************************)
\* at most MaxFutures files need indexing
MaxFutures == 3

Futures == 1..MaxFutures

\* a variant that counts the futures from 0
EnumerateFromZero(k) == k - 1

\* enumerate(as_completed(...), 1): the number given to the k-th future
Enumerate(k) == k

\* index_codebase: progress_callback("Discovering files", 0, len(files_to_index)),
\* then the tasks are submitted
PgSubmit ==
    /\ pg.pc = "start"
    /\ pg' = [pg EXCEPT !.pc = "submitted",
                        !.calls = <<[message |-> "Discovering files", file |-> 0,
                                     current |-> 0, total |-> pg.total]>>,
                        !.state = [f \in Futures |->
                                     IF f <= pg.total THEN "running" ELSE "none"]]
    /\ UNCHANGED <<ivars, cli, nr, ck, sr, vs, pl, lk, gf, rpc>>

\* a worker finishes the task of f: the future holds a result or an exception;
\* a waiter installed by as_completed is told, in the order of finishing
PgTaskDone(f) ==
    /\ pg.pc \in {"submitted", "loop"}
    /\ pg.state[f] = "running"
    /\ \E outcome \in {"result", "exception"} :
         pg' = [pg EXCEPT !.state[f] = outcome,
                          !.completed = Append(@, f),
                          !.finished_futures =
                             IF pg.pc = "loop" THEN Append(@, f) ELSE @]
    /\ UNCHANGED <<ivars, cli, nr, ck, sr, vs, pl, lk, gf, rpc>>

\* as_completed starts: the futures that have finished already are collected
\* in a set, the waiter is installed for the others
PgAsCompleted ==
    /\ pg.pc = "submitted"
    /\ pg' = [pg EXCEPT !.pc = "loop",
                        !.finished = {f \in Futures : pg.state[f] \in {"result", "exception"}}]
    /\ UNCHANGED <<ivars, cli, nr, ck, sr, vs, pl, lk, gf, rpc>>

\* one iteration of the for loop: as_completed yields a future, first those of
\* the set in the order the set gives them, then those the waiter was told of
\* in the order of finishing; future.result() returns or raises and the
\* callback is called
PgIterate ==
    /\ pg.pc = "loop"
    /\ \E f \in Futures :
         /\ IF pg.finished # {} THEN f \in pg.finished
            ELSE pg.finished_futures # <<>> /\ f = Head(pg.finished_futures)
         /\ pg' = [pg EXCEPT
                     !.finished = @ \ {f},
                     !.finished_futures = IF pg.finished # {} THEN @ ELSE Tail(@),
                     !.i = @ + 1,
                     !.calls = Append(@, [message |-> IF pg.state[f] = "result"
                                                      THEN "Indexed"
                                                      ELSE "Error indexing",
                                          file |-> f,
                                          current |-> Enumerate(pg.i + 1),
                                          total |-> pg.total])]
    /\ UNCHANGED <<ivars, cli, nr, ck, sr, vs, pl, lk, gf, rpc>>

\* every future was yielded: the loop and the with block end, the statistics
\* are returned
PgReturn ==
    /\ pg.pc = "loop"
    /\ pg.i = pg.total
    /\ pg' = [pg EXCEPT !.pc = "returned"]
    /\ UNCHANGED <<ivars, cli, nr, ck, sr, vs, pl, lk, gf, rpc>>

NoPg == [pc |-> "off", total |-> 0, state |-> [f \in Futures |-> "none"],
         completed |-> <<>>, finished |-> {}, finished_futures |-> <<>>,
         i |-> 0, calls |-> <<>>]

(***************************************************************************)
(* Claims about the indexer and the store, checked under Spec (C17 and C18 *)
(* under SpecRun).                                                         *)
(***************************************************************************)
\* the step is an incremental index() that starts tasks
StartsIncrementalTasks == phase = "idle" /\ phase' = "index" /\ incremental'
\* the step is an incremental index() that returns at once
ReturnsAtOnce ==
    phase = "idle" /\ phase' = "idle" /\ result'.call = "index" /\ result' # result
\* the step is the add_embeddings call of the task of f
UpsertStep(f) == task[f].st = "embedded" /\ task'[f].st \in {"ok", "err"}

\* C1: a file whose latest _index_file succeeded and that was not modified
\* since is skipped by every later incremental index().
C1_UnchangedFileIsSkipped ==
    [][StartsIncrementalTasks => \A f \in Files : fresh[f] => f \in skipped']_vars

\* C2: between operations, all stored points of one file carry the same
\* file_mtime.
C2_OneMtimePerFile ==
    phase = "idle" =>
        \A f \in Files : \A c, d \in Stored(f) : points[f][c] = points[f][d]

\* C3: when index() re-indexes a file that has stored points and is not
\* modified meanwhile, the points of the file are afterwards exactly the chunks
\* of its current content.
C3_ReindexLeavesCurrentChunks ==
    [][\A f \in Files :
          (phase = "index" /\ UpsertStep(f) /\ task'[f].st = "ok"
             /\ Stored(f) # {} /\ ~task[f].dirty)
          => {c \in Texts : points'[f][c] # 0} = content'[f]]_vars

\* C4: an add_embeddings whose vectors have the dimension the collection is
\* configured with keeps every previously stored point, also on the first
\* upsert of a newly opened handle.
C4_SameDimensionKeepsPoints ==
    [][\A f \in Files :
          (UpsertStep(f) /\ embDim = collDim)
          => \A g \in Files : \A c \in Texts :
                points[g][c] # 0 => points'[g][c] # 0]_vars

\* C7: after an index() that returned errors = 0, an immediately following
\* incremental index() on the unchanged tree processes no file and skips all.
C7_SecondRunSkipsAll ==
    [][(settled = "yes" /\ (StartsIncrementalTasks \/ ReturnsAtOnce))
          => /\ ReturnsAtOnce
             /\ result'.files_processed = 0
             /\ result'.files_skipped = Cardinality(Files)]_vars

\* C10: a step adds or rewrites points of a file only as the successful single
\* upsert of that file's task, and then it writes all the task's chunks; a task
\* that fails in an embed call or in the upsert adds nothing.
C10_AllOrNothing ==
    [][\A f \in Files :
          LET written == {c \in Texts : points'[f][c] # 0
                                        /\ points'[f][c] # points[f][c]}
          IN /\ written # {} =>
                  /\ UpsertStep(f) /\ task'[f].st = "ok"
                  /\ written \subseteq task[f].chunks
                  /\ \A c \in task[f].chunks : points'[f][c] = task[f].mt
             /\ (task'[f].st = "err" /\ task[f].st # "err") => written = {}]_vars

\* C10 witness: one task of the run failed after another stored its chunks,
\* and the failed file has chunks but no point
C10_Witness ==
    \E f, g \in Files :
        /\ phase = "index" /\ task[f].st = "err" /\ task[g].st = "ok"
        /\ content[f] # {} /\ Stored(f) = {} /\ Stored(g) # {}

\* the step is index() returning its statistics after the tasks
IndexReturns == phase = "index" /\ phase' = "idle" /\ result'.call = "index"

\* C11: when tasks raise, index() still returns its statistics: errors is the
\* number of files whose task raised, every file marked for indexing was
\* processed, and the chunks of the files that did not raise are in the store.
C11_FailuresCountedOthersStored ==
    [][IndexReturns =>
          /\ result'.files_processed = Cardinality(toIndex)
          /\ result'.errors = Cardinality({f \in toIndex : task[f].st = "err"})
          /\ \A f \in toIndex :
                /\ task[f].st \in {"ok", "err"}
                /\ task[f].st = "ok" =>
                      /\ Cardinality(Stored(f)) >= task[f].n
                      /\ fresh[f] => content[f] \subseteq Stored(f)]_vars

\* C11 witness: index() has returned with one failed file and one file whose
\* chunks it stored
C11_Witness ==
    /\ phase = "idle" /\ result.call = "index"
    /\ result.errors = 1 /\ result.files_processed = 2 /\ result.chunks_created > 0
    /\ \E f \in Files : fresh[f] /\ content[f] # {} /\ content[f] \subseteq Stored(f)

\* C12: when the task of reindex_file(f) succeeds on a file not rewritten
\* meanwhile, the points of f are exactly the chunks of its current content
\* (none of the old content is left), and the store is not empty if the
\* content has chunks.
C12_ReindexFileReplacesChunks ==
    [][\A f \in Files :
          (phase = "reindex" /\ task[f].st \notin {"ok", "err"}
             /\ task'[f].st = "ok" /\ ~task[f].dirty)
          => /\ {c \in Texts : points'[f][c] # 0} = content'[f]
             /\ content'[f] # {} =>
                   \E g \in Files : \E c \in Texts : points'[g][c] # 0]_vars

\* C17: index() runs one _index_file task for each file it marked and none
\* for the others, a finished task never runs again in the same call, at most
\* max_workers tasks run at a time, and the statistics are returned only when
\* every task has finished.
C17_OneTaskPerFileBoundedPool ==
    [][/\ phase' \in {"index", "unwind"} => Cardinality(Running') <= workers'
       /\ \A f \in Files :
             (task'[f].st = "queued" /\ task[f].st # "queued")
                => (phase = "idle" /\ (phase' = "index" => f \in toIndex'))
       /\ (phase = "index" /\ phase' = "index") =>
             \A f \in Files :
                /\ f \in toIndex =>
                      /\ task'[f].st # "none"
                      /\ task[f].st \in {"ok", "err"} => task'[f].st = task[f].st
                /\ f \notin toIndex => task'[f].st = "none"
       /\ IndexReturns => \A f \in toIndex : task[f].st \in {"ok", "err"}]_vars

\* C17 witness: the pool has one worker, one task is running and the task of
\* the other marked file waits in the queue
C17_Witness ==
    /\ phase = "index" /\ workers = 1 /\ toIndex = Files
    /\ \E f, g \in Files : task[f].st = "embedded" /\ task[g].st = "queued"

\* C18: an interrupt of index() changes no point; while index() unwinds, the
\* points of a file whose upsert has completed stay in the store; and index()
\* unwinds only when every task has run to completion.
C18_InterruptKeepsPointsAndWaits ==
    [][/\ (phase = "index" /\ phase' = "unwind") => points' = points
       /\ phase = "unwind" =>
             \A f \in Files :
                (task[f].st = "ok" /\ task[f].n > 0)
                   => \A c \in Texts : points[f][c] # 0 => points'[f][c] # 0
       /\ (phase = "unwind" /\ phase' = "idle") =>
             /\ \A f \in toIndex : task[f].st \in {"ok", "err"}
             /\ points' = points]_vars

\* C18 witness: index() was interrupted and is unwinding; the upsert of one
\* file has completed, its points are stored, and the task of another file is
\* still running
C18_Witness ==
    /\ phase = "unwind"
    /\ \E f, g \in Files :
          /\ task[f].st = "ok" /\ task[f].n > 0 /\ Stored(f) # {}
          /\ task[g].st \in {"parsed", "embedded"}

\* the files an incremental index() that takes this step skips
SkippedByStep ==
    IF StartsIncrementalTasks THEN skipped'
    ELSE IF ReturnsAtOnce THEN Files
    ELSE {}

\* C23: whenever an incremental index() skips a file, the points stored for
\* the file are those of the chunks of the file's current content, also when
\* the file was rewritten while an earlier task for it was running.
C23_SkippedFileIsCurrent ==
    [][\A f \in SkippedByStep : Stored(f) = content[f]]_vars

\* C24: when reindex_file(f) fails, the points stored for f before the call
\* are still in the store when it returns.
C24_FailedReindexKeepsPoints ==
    [][(phase = "reindex" /\ phase' = "idle")
          => \A f \in toIndex :
                task[f].st = "err" =>
                   \A c \in Texts :
                      hist.before[f][c] # 0 => points'[f][c] = hist.before[f][c]]_vars

\* C25: when index() returns, the points of every file it skipped as unchanged
\* are the points the store held for the file when the run started.
C25_SkippedFilesKeepPoints ==
    [][IndexReturns => \A f \in skipped : points'[f] = hist.before[f]]_vars

\* the sum of the chunk counts of the tasks of S that succeeded
RECURSIVE ReturnedCounts(_)
ReturnedCounts(S) ==
    IF S = {} THEN 0
    ELSE LET f == CHOOSE g \in S : TRUE
         IN (IF task[f].st = "ok" THEN task[f].n ELSE 0) + ReturnedCounts(S \ {f})

\* C27: in every result of index(), files_processed + files_skipped is the
\* number of discovered files, errors <= files_processed, and chunks_created
\* is the sum of the counts the succeeded tasks returned.
C27_ResultAccounting ==
    [][(IndexReturns \/ ReturnsAtOnce)
          => /\ result'.files_processed + result'.files_skipped = Cardinality(Files)
             /\ result'.errors <= result'.files_processed
             /\ result'.chunks_created = ReturnedCounts(toIndex)]_vars

\* C27 witness: a run of two files returned with one error and the two chunks
\* of the other file
C27_Witness ==
    /\ result.call = "index" /\ result.files_processed = 2
    /\ result.errors = 1 /\ result.chunks_created = 2

\* C28: within one index() run the collection is dropped and recreated at
\* most once, and not after an add_embeddings of the run has stored chunks.
C28_OneRecreationBeforeAnyUpsert ==
    [][(phase = "index" /\ hist'.recreated > hist.recreated)
          => (hist.recreated = 0 /\ hist.upserted = 0)]_vars

\* C28 witness: a run recreated the collection and then stored the chunks of
\* two files
C28_Witness ==
    phase = "index" /\ hist.recreated = 1 /\ hist.upserted = 2

(***************************************************************************)
(* Claims about the chunker, checked under SpecChunk.                      *)
(***************************************************************************)
\* C5: every chunk chunk_nodes returns has token_count <= chunk_size_tokens.
C5_ChunksWithinBudget ==
    ck.pc = "done" =>
        \A i \in 1..Len(ck.chunks) : ck.chunks[i].token_count <= ck.chunk_size

\* C6: in each iteration of the sliding window loop the window start strictly
\* advances or the loop ends.
C6_WindowAdvancesOrEnds ==
    [][(ck.pc = "window" /\ ck' # ck)
          => (ck'.pc = "done" \/ ck'.start_idx > ck.start_idx)]_vars

\* C26: when _sliding_window_chunk has returned the chunks of an oversized
\* method, every source line of the method is in at least one chunk.
C26_WindowsCoverEveryLine ==
    (ck.pc = "done" /\ ck.chunks # <<>> /\ ck.chunks[1].part = "window") =>
        \A i \in 1..Len(Splitlines(ck.node.lines)) :
           \E k \in 1..Len(ck.chunks) : ck.chunks[k].lo <= i /\ i <= ck.chunks[k].hi

(***************************************************************************)
(* Claims about the operations of VectorStore, checked under SpecStore.    *)
(***************************************************************************)
\* C13: after delete_by_file(f) has returned, a search filtered by file = f
\* has no hit and no id of f resolves any more: no point of f is left.
C13_DeleteByFileLeavesNoPoint ==
    vs.op = "delete_by_file" =>
        /\ vs.n[vs.arg] = 0
        /\ \A n_results \in {1, 5} : HitsByFile(vs.n, vs.arg, n_results) = 0

\* C14: after clear() has returned, count() = 0.
C14_ClearLeavesNothing == vs.op = "clear" => Count(vs.n) = 0

\* C15 (checked under SpecPayload): after add_embeddings, get_by_id(ids[i])
\* returns the id, the document and a metadata map equal to those of point i.
C15_GetByIdReturnsWhatWasAdded ==
    pl.pc = "got" =>
        LET pt == pl.batch[pl.idx]
        IN /\ pl.got.found
           /\ pl.got.id = pt.id
           /\ pl.got.document = pt.document
           /\ pl.got.metadata = pt.metadata

(***************************************************************************)
(* Claims about _db_lock, checked under SpecLock.                          *)
(***************************************************************************)
\* C16: no two threads are inside mutating sections at the same time,
\* whatever the instances, and a thread that is inside one (it holds the lock)
\* is never blocked when it enters another.
C16_OneThreadInMutatingSections ==
    /\ \A t, u \in Threads : (InSection(t) /\ InSection(u)) => t = u
    /\ \A t \in Threads :
          (InSection(t) /\ Top(t).pc = "called")
             => CanAcquire(LockOf(Top(t).store), t)

\* C16 witness: a thread is inside two nested mutating sections on different
\* instances while the other thread has called one and waits
C16_Witness ==
    \E t, u \in Threads :
        /\ t # u
        /\ Len(lk.stack[t]) = 2 /\ lk.stack[t][1].pc = "in" /\ lk.stack[t][2].pc = "in"
        /\ lk.stack[t][1].store # lk.stack[t][2].store
        /\ lk.count["_db_lock"] = 2
        /\ lk.stack[u] # <<>> /\ lk.stack[u][1].pc = "called"

(***************************************************************************)
(* Claims about main() of the indexing script, checked under SpecCli.      *)
(***************************************************************************)
\* the positions of a call in the trace of main
CallsOf(name) == {i \in 1..Len(cli.calls) : cli.calls[i] = name}

\* C21: main returns 1 when the availability check fails, and index_codebase
\* is then never called; when index_codebase was called it returns 0 for
\* errors = 0, 1 for errors > 0 or an exception, 130 for KeyboardInterrupt.
C21_ExitCodes ==
    cli.pc = "returned" =>
        /\ (CallsOf("is_available") # {} /\ ~cli.available) =>
              (cli.exit = 1 /\ CallsOf("index_codebase") = {})
        /\ CallsOf("index_codebase") # {} =>
              /\ (cli.outcome.kind = "returns" /\ cli.outcome.errors = 0) => cli.exit = 0
              /\ (cli.outcome.kind = "returns" /\ cli.outcome.errors > 0) => cli.exit = 1
              /\ cli.outcome.kind = "raises" => cli.exit = 1
              /\ cli.outcome.kind = "KeyboardInterrupt" => cli.exit = 130

\* C21 witness: an indexing run with --clear that reported errors returned 1
C21_Witness ==
    /\ cli.pc = "returned" /\ cli.clear /\ cli.available
    /\ cli.outcome.kind = "returns" /\ cli.outcome.errors > 0 /\ cli.exit = 1

\* C29: clear_index is called only when the backend is available and after
\* the availability check, and index_codebase starts only after a clear_index
\* that was called has returned.
C29_ClearOnlyAfterCheck ==
    /\ \A i \in CallsOf("clear_index") :
          /\ cli.available
          /\ \E j \in CallsOf("is_available") : j < i
    /\ \A k \in CallsOf("index_codebase") :
          \A i \in CallsOf("clear_index") :
             \E j \in CallsOf("clear_index returned") : i < j /\ j < k

\* C29 witness: with --clear, the index was cleared and indexing has started
C29_Witness ==
    /\ cli.clear /\ cli.pc = "indexing"
    /\ ~cli.codebase
    /\ cli.calls = <<"is_available", "clear_index", "clear_index returned",
                     "index_codebase">>

(***************************************************************************)
(* Claims about _needs_reindexing, checked under SpecNeeds.                *)
(***************************************************************************)
\* C22: _needs_reindexing returns true exactly when the store has no point of
\* the file, or the first point of the scroll has no file_mtime, or the
\* current mtime is greater than that file_mtime, or the stat or the lookup
\* raises; otherwise it returns false.
C22_NeedsReindexingExactly ==
    nr.pc = "returned" =>
        (nr.result <=>
            \/ nr.stat = 0
            \/ nr.scroll.raises
            \/ nr.scroll.payloads = <<>>
            \/ nr.scroll.payloads[1] = 0
            \/ nr.stat > nr.scroll.payloads[1])

\* C22 witness: a file older than its stored file_mtime was reported unchanged
C22_Witness ==
    /\ nr.pc = "returned" /\ ~nr.result
    /\ nr.stat = 1 /\ ~nr.scroll.raises /\ nr.scroll.payloads = <<2, 0>>

(***************************************************************************)
(* Claims about the progress callback, checked under SpecProgress.         *)
(***************************************************************************)
\* the calls of the callback so far: first (0, T), then call k + 1 with
\* current = k and total = T for a file whose task has finished, the message
\* telling whether the task raised, no file twice
ProgressCallsInOrder ==
    /\ pg.calls[1] = [message |-> "Discovering files", file |-> 0,
                      current |-> 0, total |-> pg.total]
    /\ \A k \in 2..Len(pg.calls) :
          LET c == pg.calls[k]
          IN /\ c.current = k - 1 /\ c.total = pg.total
             /\ c.file \in 1..pg.total
             /\ pg.state[c.file] \in {"result", "exception"}
             /\ (c.message = "Error indexing") <=> (pg.state[c.file] = "exception")
             /\ (c.message = "Indexed") <=> (pg.state[c.file] = "result")
             /\ \A j \in 2..Len(pg.calls) : pg.calls[j].file = c.file => j = k

RealRoot == RealPath(<<>>, gf.root.parts)
RealTarget == RealPath(<<>>, Joined(gf.root, gf.path).parts)

\* C19: get_file returns content only of a location under the codebase root,
\* and for a path whose location is outside the root it raises the path-escape
\* error without having checked existence or read anything.
C19_NoContentOutsideRoot ==
    gf.pc = "done" =>
        /\ gf.raised = "" => (gf.read # <<>> /\ IsPrefix(RealRoot, gf.read))
        /\ ~IsPrefix(RealRoot, RealTarget) =>
              /\ gf.raised = "outside codebase root"
              /\ gf.read = <<>>
              /\ \A i \in 1..Len(gf.ops) : gf.ops[i] \notin {"exists", "read_text"}

\* C19 witness: a relative path that goes through a symbolic link to an
\* existing file outside the root was rejected
C19_Witness ==
    /\ gf.pc = "done" /\ gf.root.parts = <<"r">> /\ gf.root.abs
    /\ ~gf.path.abs /\ gf.path.parts = <<"l", "s">>
    /\ gf.raised = "outside codebase root"

(***************************************************************************)
(* Claims about the RPC handlers, checked under SpecServer.                *)
(***************************************************************************)
\* reading a JSON string literal from the piece after its opening quote:
\* the value, and the text left after the closing quote
RECURSIVE JsonString(_)
JsonString(t) ==
    IF t = <<>> THEN [ok |-> FALSE, value |-> <<>>, rest |-> <<>>]
    ELSE IF Head(t) = "\"" THEN [ok |-> TRUE, value |-> <<>>, rest |-> Tail(t)]
    ELSE IF Head(t) = "\"}" THEN [ok |-> TRUE, value |-> <<>>, rest |-> <<"}">> \o Tail(t)]
    ELSE IF Head(t) = "\\"
    THEN IF Len(t) >= 2 /\ t[2] \in {"\"", "\\"}
         THEN LET r == JsonString(SubSeq(t, 3, Len(t)))
              IN [r EXCEPT !.value = <<t[2]>> \o r.value]
         ELSE [ok |-> FALSE, value |-> <<>>, rest |-> <<>>]
    ELSE LET r == JsonString(Tail(t))
         IN [r EXCEPT !.value = <<Head(t)>> \o r.value]

\* the text is a JSON object with the one field "error", whose value is msg
IsJsonError(text, msg) ==
    /\ text # <<>> /\ Head(text) = "{\"error\": \""
    /\ LET r == JsonString(Tail(text))
       IN r.ok /\ r.value = msg /\ r.rest = <<"}">>

\* C20: a call of call_tool, read_resource or get_prompt that fails (unknown
\* name, or the handler raises) returns an error payload naming the cause:
\* 'Error: ' and the message for a tool or a prompt, a JSON object with an
\* 'error' field holding the message for a resource.
C20_ErrorPayloadNamesCause ==
    (rpc.pc = "returned" /\ rpc.cause.raises) =>
        IF rpc.handler = "read_resource"
        THEN IsJsonError(rpc.result, rpc.cause.msg)
        ELSE rpc.result = <<"Error: ">> \o rpc.cause.msg

(***************************************************************************)
(* Claims about search_code, checked under SpecSearch.                     *)
(***************************************************************************)
\* C8: the list search_code returns is ordered by non-increasing
\* relevance_score.
C8_ResultsByDescendingRelevance ==
    sr.pc = "done" =>
        \A i, j \in 1..Len(sr.out) :
            i < j => sr.out[i].relevance_score >= sr.out[j].relevance_score

\* C9: a hit is returned exactly when the similarity the store reports for it
\* is at least similarity_threshold, and its relevance_score is that
\* similarity (rounded), not its inverse.
C9_SimilarityPassesThrough ==
    sr.pc = "done" =>
        /\ \A i \in 1..Len(sr.distances) :
              (\E k \in 1..Len(sr.out) : sr.out[k].hit = i)
                 <=> sr.distances[i] >= sr.threshold
        /\ \A k \in 1..Len(sr.out) :
              sr.out[k].relevance_score = Round2(sr.distances[sr.out[k].hit])

Init ==
    /\ content \in [Files -> SUBSET Texts]
    /\ mtime = [f \in Files |-> 1]
    /\ collDim = DefaultVectorSize
    /\ points = EmptyPoints
    /\ vector_size = DefaultVectorSize
    /\ embDim \in Dims
    /\ workers = max_workers
    /\ phase = "idle"
    /\ task = [f \in Files |-> NoTask]
    /\ incremental = FALSE
    /\ toIndex = {}
    /\ skipped = {}
    /\ result = NoResult
    /\ fresh = [f \in Files |-> FALSE]
    /\ settled = "no"
    /\ hist = NoHist
    /\ ck = NoCk
    /\ sr = NoSr
    /\ vs = NoVs
    /\ pl = NoPl
    /\ lk = NoLk
    /\ gf = NoGf
    /\ rpc = NoRpc
    /\ cli = NoCli
    /\ nr = NoNr
    /\ pg = NoPg

Next ==
    \/ \E incr \in BOOLEAN : IndexStart(incr) /\ UNCHANGED <<ck, sr, vs, pl, lk, gf, rpc, cli, nr, pg>>
    \/ \E f \in Files : TaskParse(f) /\ UNCHANGED <<ck, sr, vs, pl, lk, gf, rpc, cli, nr, pg>>
    \/ \E f \in Files : TaskEmbed(f) /\ UNCHANGED <<ck, sr, vs, pl, lk, gf, rpc, cli, nr, pg>>
    \/ \E f \in Files : TaskUpsert(f) /\ UNCHANGED <<ck, sr, vs, pl, lk, gf, rpc, cli, nr, pg>>
    \/ IndexReturn /\ UNCHANGED <<ck, sr, vs, pl, lk, gf, rpc, cli, nr, pg>>
    \/ \E f \in Files : ReindexStart(f) /\ UNCHANGED <<ck, sr, vs, pl, lk, gf, rpc, cli, nr, pg>>
    \/ ReindexReturn /\ UNCHANGED <<ck, sr, vs, pl, lk, gf, rpc, cli, nr, pg>>
    \/ Clear /\ UNCHANGED <<ck, sr, vs, pl, lk, gf, rpc, cli, nr, pg>>
    \/ Restart /\ UNCHANGED <<ck, sr, vs, pl, lk, gf, rpc, cli, nr, pg>>
    \/ \E f \in Files : Modify(f) /\ UNCHANGED <<ck, sr, vs, pl, lk, gf, rpc, cli, nr, pg>>

Spec == Init /\ [][Next]_vars

\* the indexer at rest, for the specifications that do not use it
IndexerAtRest ==
    /\ content = [f \in Files |-> {}]
    /\ mtime = [f \in Files |-> 1]
    /\ collDim = DefaultVectorSize
    /\ points = EmptyPoints
    /\ vector_size = DefaultVectorSize
    /\ embDim = DefaultVectorSize
    /\ workers = 1
    /\ phase = "idle"
    /\ task = [f \in Files |-> NoTask]
    /\ incremental = FALSE
    /\ toIndex = {}
    /\ skipped = {}
    /\ result = NoResult
    /\ fresh = [f \in Files |-> FALSE]
    /\ settled = "no"
    /\ hist = NoHist

InitChunk ==
    /\ IndexerAtRest
    /\ sr = NoSr
    /\ vs = NoVs
    /\ pl = NoPl
    /\ lk = NoLk
    /\ gf = NoGf
    /\ rpc = NoRpc
    /\ cli = NoCli
    /\ nr = NoNr
    /\ pg = NoPg
    /\ ck \in {[NoCk EXCEPT !.pc = "start", !.chunk_size = cs, !.overlap = ov, !.node = nd] :
                 cs \in ChunkSizes, ov \in Overlaps, nd \in Nodes}

NextChunk == ChunkNode \/ SlidingStep

SpecChunk == InitChunk /\ [][NextChunk]_vars

InitSearch ==
    /\ IndexerAtRest
    /\ ck = NoCk
    /\ vs = NoVs
    /\ pl = NoPl
    /\ lk = NoLk
    /\ gf = NoGf
    /\ rpc = NoRpc
    /\ cli = NoCli
    /\ nr = NoNr
    /\ pg = NoPg
    /\ sr \in {[NoSr EXCEPT !.pc = "start", !.ranked = r, !.max_results = k, !.threshold = t] :
                 r \in Rankings, k \in 1..MaxHits, t \in Thresholds}

NextSearch == SearchCode

SpecSearch == InitSearch /\ [][NextSearch]_vars

InitStore ==
    /\ IndexerAtRest
    /\ ck = NoCk
    /\ sr = NoSr
    /\ vs = [NoVs EXCEPT !.pc = "run"]
    /\ pl = NoPl
    /\ lk = NoLk
    /\ gf = NoGf
    /\ rpc = NoRpc
    /\ cli = NoCli
    /\ nr = NoNr
    /\ pg = NoPg

NextStore ==
    \/ \E f \in Files : \E k \in BatchSizes : VsAddEmbeddings(f, k)
    \/ \E f \in Files : VsDeleteByFile(f)
    \/ VsClear

SpecStore == InitStore /\ [][NextStore]_vars

InitPayload ==
    /\ IndexerAtRest
    /\ ck = NoCk
    /\ sr = NoSr
    /\ vs = NoVs
    /\ pl \in {[NoPl EXCEPT !.pc = "start", !.batch = b] : b \in Batches}
    /\ lk = NoLk
    /\ gf = NoGf
    /\ rpc = NoRpc
    /\ cli = NoCli
    /\ nr = NoNr
    /\ pg = NoPg

NextPayload ==
    \/ PlAddEmbeddings
    \/ \E i \in 1..MaxBatch : PlGetById(i)

SpecPayload == InitPayload /\ [][NextPayload]_vars

InitLock ==
    /\ IndexerAtRest
    /\ ck = NoCk
    /\ sr = NoSr
    /\ vs = NoVs
    /\ pl = NoPl
    /\ lk = [NoLk EXCEPT !.pc = "run"]
    /\ gf = NoGf
    /\ rpc = NoRpc
    /\ cli = NoCli
    /\ nr = NoNr
    /\ pg = NoPg

NextLock ==
    \/ \E t \in Threads : \E op \in MutatingOps : \E store \in Instances :
          LkCall(t, op, store)
    \/ \E t \in Threads : LkEnter(t)
    \/ \E t \in Threads : LkLeave(t)

SpecLock == InitLock /\ [][NextLock]_vars

\* index() runs on pools of every size, with interrupts and file modifications
InitRun ==
    /\ content \in [Files -> SUBSET Texts]
    /\ mtime = [f \in Files |-> 1]
    /\ collDim = DefaultVectorSize
    /\ points = EmptyPoints
    /\ vector_size = DefaultVectorSize
    /\ embDim \in Dims
    /\ workers \in {1, max_workers}
    /\ phase = "idle"
    /\ task = [f \in Files |-> NoTask]
    /\ incremental = FALSE
    /\ toIndex = {}
    /\ skipped = {}
    /\ result = NoResult
    /\ fresh = [f \in Files |-> FALSE]
    /\ settled = "no"
    /\ hist = NoHist
    /\ ck = NoCk
    /\ sr = NoSr
    /\ vs = NoVs
    /\ pl = NoPl
    /\ lk = NoLk
    /\ gf = NoGf
    /\ rpc = NoRpc
    /\ cli = NoCli
    /\ nr = NoNr
    /\ pg = NoPg

NextRun ==
    \/ \E incr \in BOOLEAN : IndexStart(incr) /\ UNCHANGED <<ck, sr, vs, pl, lk, gf, rpc, cli, nr, pg>>
    \/ \E f \in Files : TaskParse(f) /\ UNCHANGED <<ck, sr, vs, pl, lk, gf, rpc, cli, nr, pg>>
    \/ \E f \in Files : TaskEmbed(f) /\ UNCHANGED <<ck, sr, vs, pl, lk, gf, rpc, cli, nr, pg>>
    \/ \E f \in Files : TaskUpsert(f) /\ UNCHANGED <<ck, sr, vs, pl, lk, gf, rpc, cli, nr, pg>>
    \/ IndexReturn /\ UNCHANGED <<ck, sr, vs, pl, lk, gf, rpc, cli, nr, pg>>
    \/ \E f \in Files : Modify(f) /\ UNCHANGED <<ck, sr, vs, pl, lk, gf, rpc, cli, nr, pg>>
    \/ Interrupt /\ UNCHANGED <<ck, sr, vs, pl, lk, gf, rpc, cli, nr, pg>>
    \/ UnwindReturn /\ UNCHANGED <<ck, sr, vs, pl, lk, gf, rpc, cli, nr, pg>>

SpecRun == InitRun /\ [][NextRun]_vars

InitFile ==
    /\ IndexerAtRest
    /\ ck = NoCk
    /\ sr = NoSr
    /\ vs = NoVs
    /\ pl = NoPl
    /\ lk = NoLk
    /\ gf \in {[NoGf EXCEPT !.pc = "start", !.root = r, !.path = q] :
                 r \in Roots, q \in PathArguments}
    /\ rpc = NoRpc
    /\ cli = NoCli
    /\ nr = NoNr
    /\ pg = NoPg

NextFile == GetFile

SpecFile == InitFile /\ [][NextFile]_vars

InitServer ==
    /\ IndexerAtRest
    /\ ck = NoCk
    /\ sr = NoSr
    /\ vs = NoVs
    /\ pl = NoPl
    /\ lk = NoLk
    /\ gf = NoGf
    /\ rpc \in {[NoRpc EXCEPT !.pc = h, !.handler = h, !.name = n] :
                  h \in {"call_tool", "read_resource", "get_prompt"}, n \in RpcNames}
    /\ cli = NoCli
    /\ nr = NoNr
    /\ pg = NoPg

NextServer == CallTool \/ ReadResource \/ GetPrompt

SpecServer == InitServer /\ [][NextServer]_vars

InitCli ==
    /\ IndexerAtRest
    /\ ck = NoCk
    /\ sr = NoSr
    /\ vs = NoVs
    /\ pl = NoPl
    /\ lk = NoLk
    /\ gf = NoGf
    /\ rpc = NoRpc
    /\ cli \in {[NoCli EXCEPT !.pc = "modes", !.codebase = b, !.clear = c,
                               !.check_ollama = o, !.stats = t, !.available = a] :
                  b \in BOOLEAN, c \in BOOLEAN, o \in BOOLEAN, t \in BOOLEAN,
                  a \in BOOLEAN}
    /\ nr = NoNr
    /\ pg = NoPg

NextCli ==
    \/ CliModes
    \/ CliCheckOllama
    \/ CliClear
    \/ CliCleared
    \/ CliIndex
    \/ CliIndexed

SpecCli == InitCli /\ [][NextCli]_vars

InitNeeds ==
    /\ IndexerAtRest
    /\ ck = NoCk
    /\ sr = NoSr
    /\ vs = NoVs
    /\ pl = NoPl
    /\ lk = NoLk
    /\ gf = NoGf
    /\ rpc = NoRpc
    /\ cli = NoCli
    /\ nr \in {[NoNr EXCEPT !.pc = "start", !.stat = t, !.scroll = r] :
                 t \in StatResults, r \in ScrollResults}
    /\ pg = NoPg

NextNeeds == CheckNeedsReindexing

SpecNeeds == InitNeeds /\ [][NextNeeds]_vars

InitProgress ==
    /\ IndexerAtRest
    /\ ck = NoCk
    /\ sr = NoSr
    /\ vs = NoVs
    /\ pl = NoPl
    /\ lk = NoLk
    /\ gf = NoGf
    /\ rpc = NoRpc
    /\ cli = NoCli
    /\ nr = NoNr
    /\ pg \in {[NoPg EXCEPT !.pc = "start", !.total = n] : n \in 1..MaxFutures}

NextProgress ==
    \/ PgSubmit
    \/ \E f \in Futures : PgTaskDone(f)
    \/ PgAsCompleted
    \/ PgIterate
    \/ PgReturn

SpecProgress == InitProgress /\ [][NextProgress]_vars

====
